---- MODULE Spec2Model ----
(***************************************************************************)
(* State-machine model of the two sample programs of libSGM:               *)
(*   sample/stereosgm_movie.cpp      (the Batch Runner, actions m_..)      *)
(*   sample/stereosgm_test_time.cpp  (the Benchmark Runner, actions b_..)  *)
(* and of the disparity encoding done inside the Batch Runner's loop       *)
(* (lines 113-120 of stereosgm_movie.cpp, actions e_..), at pixel level.   *)
(*                                                                         *)
(* Each action is one statement (or one group of adjacent statements) of   *)
(* main(); pc holds the position of the single thread of control.          *)
(***************************************************************************)
EXTENDS Integers, Sequences, FiniteSets, TLC

VARIABLES
    pc,                 \* position in main()
    exit_status,        \* NoExit while running, else the process's end
    disp_size, start_number, total_number,      \* parsed command line
    I1, I2,             \* cv::Mat I1, I2
    disk_first,         \* the files at start_number, as the first imread saw them
    width, height, src_depth, src_bytes, dst_bytes,
    sgm,                \* sgm::StereoSGM
    d_I1, d_I2, d_disparity,                    \* device_buffer
    gpu,                \* work queued on the device and not yet synchronised
    disparity,          \* cv::Mat disparity (host)
    invalid_disp,
    frame_no,
    output_disparity, mask, full_path,
    imwrite_result,     \* how the last cv::imwrite ended
    cout, cerr,         \* lines printed
    files,              \* output files written, in order
    trace,              \* the operations performed so far, in order
    i, duration, total_duration_us, average_time_us,   \* Benchmark Runner
    measured_sum        \* sum of the durations the clock gave to iterations 20..69

vars == << pc, exit_status, disp_size, start_number, total_number, I1, I2,
           disk_first, width, height, src_depth, src_bytes, dst_bytes, sgm,
           d_I1, d_I2, d_disparity, gpu, disparity, invalid_disp, frame_no,
           output_disparity, mask, full_path, imwrite_result, cout, cerr,
           files, trace, i, duration, total_duration_us, average_time_us,
           measured_sum >>

argvars   == << disp_size, start_number, total_number >>
dimvars   == << width, height, src_depth, src_bytes, dst_bytes >>
devvars   == << sgm, d_I1, d_I2, d_disparity, gpu >>
encvars   == << output_disparity, mask >>
iovars    == << cout, cerr, files >>
benchvars == << i, duration, total_duration_us, average_time_us, measured_sum >>

-----------------------------------------------------------------------------
(* Bounds of the model *)

\* total_number is drawn from 0..MaxTotal
MaxTotal == 2
\* one matching call takes 0..MaxDur microseconds
MaxDur == 1
\* a disparity map of the encoder specification has 1..MaxPixels samples
MaxPixels == 2

-----------------------------------------------------------------------------
(* Program constants *)

\* int is 32 bits wide
INT_MAX == 2147483647
INT_MIN == -INT_MAX - 1
\* OpenCV's type codes (single channel)
CV_8U == 0
CV_8S == 1
CV_16U == 2
CV_16S == 3
EXIT_SUCCESS == 0
EXIT_FAILURE == 1
dst_depth == 16
USHRT_MAX == 65535
SHRT_MAX == 32767
SHRT_MIN == -SHRT_MAX - 1
WARMUP_RUNS == 20
MEASUREMENT_RUNS == 50

NoExit == "running"
\* the process killed by a signal (a trap on signed overflow, a fault on a
\* read past the end of a host buffer)
Killed == "killed"

-----------------------------------------------------------------------------
(* Inputs *)

DispSizes == {32, 64, 128, 192, 256}
\* (from 9999 the frame number outgrows the four digits of the file name)
StartNumbers == {0, 9999, INT_MAX - 1, INT_MAX}
TotalNumbers == 0..MaxTotal
Widths == {1, 2}
Heights == {1}
\* what a file can decode to: the two supported types and an unsupported one
FileTypes == {CV_8U, CV_16U, CV_16S}
output_path == <<".">>

-----------------------------------------------------------------------------
(* cv::Mat *)

EmptyMat == [rows |-> 0, cols |-> 0, type |-> CV_8U, data |-> <<>>]

\* The images the file of side `side` at index n can decode to; the pixel
\* data is named by the file it came from.
Images(side, n) ==
    { [rows |-> h, cols |-> w, type |-> t, data |-> <<side, n>>] :
        h \in Heights, w \in Widths, t \in FileTypes }

\* cv::imread: the decoded image, or an empty Mat when the file is missing or
\* cannot be decoded
ImreadResults(side, n) == Images(side, n) \cup {EmptyMat}

empty(m) == m.rows * m.cols = 0

size(m) == <<m.cols, m.rows>>

\* bits per sample of a type code
DepthBits(t) == IF t \in {CV_8U, CV_8S} THEN 8 ELSE 16

\* (variants of two of the conditions below: the types are not compared; a
\* range test stands for the test of the three values)
SameSizeOnly(a, b) == size(a) = size(b)
DispSizeInRange(ds) == 64 <= ds /\ ds <= 256

\* the conditions main() asserts of the first pair and of disp_size
NonEmptyPair(a, b) == ~empty(a) /\ ~empty(b)
SameSizeAndType(a, b) == size(a) = size(b) /\ a.type = b.type
SupportedType(t) == t = CV_8U \/ t = CV_16U
ValidDispSize(ds) == ds = 64 \/ ds = 128 \/ ds = 256

\* bytes of pixel data a Mat owns
MatBytes(m) == (DepthBits(m.type) * m.cols * m.rows) \div 8

-----------------------------------------------------------------------------
(* int arithmetic *)

\* (The checker's own integers are 32 bits wide, so the overflow tests and
\* the wrapped results are computed without leaving the range of int.)
AddOverflows(a, b) ==
    \/ b > 0 /\ a > INT_MAX - b
    \/ b < 0 /\ a < INT_MIN - b

SubOverflows(a, b) ==
    \/ b < 0 /\ a > INT_MAX + b
    \/ b > 0 /\ a < INT_MIN + b

\* the two's complement value of a + b, that is a + b -+ 2^32 on overflow
WrapAdd(a, b) ==
    IF ~AddOverflows(a, b) THEN a + b
    ELSE IF b > 0 THEN ((a - INT_MAX) - 1) + ((b - INT_MAX) - 1)
    ELSE ((a - INT_MIN) + (b - INT_MIN))

\* the two's complement value of a - b
WrapSub(a, b) ==
    IF ~SubOverflows(a, b) THEN a - b
    ELSE IF b > 0 THEN (a - INT_MIN) + (INT_MAX - b) + 1
    ELSE ((a - INT_MAX) - 1) + (INT_MIN - b)

\* Signed overflow is undefined: the build either wraps the result or traps.
IntOutcomes(overflows, wrapped) ==
    IF overflows
    THEN { [trap |-> FALSE, val |-> wrapped], [trap |-> TRUE, val |-> 0] }
    ELSE { [trap |-> FALSE, val |-> wrapped] }

\* the outcomes of a + b and of a - b in int
IntAdd(a, b) == IntOutcomes(AddOverflows(a, b), WrapAdd(a, b))
IntSub(a, b) == IntOutcomes(SubOverflows(a, b), WrapSub(a, b))

-----------------------------------------------------------------------------
(* sample_common.h: ASSERT_MSG and device_buffer *)

\* ASSERT_MSG(expr, msg): when expr is false, print msg and exit with failure
ASSERT_MSG(expr, msg, next) ==
    IF expr
    THEN /\ pc' = next
         /\ UNCHANGED << cerr, exit_status >>
    ELSE /\ cerr' = Append(cerr, [line |-> msg, n |-> 0, path |-> <<>>])
         /\ exit_status' = EXIT_FAILURE
         /\ pc' = "exited"

NoBuffer == [alloc |-> FALSE, size |-> 0, data |-> <<>>]

\* device_buffer(count): a block of count bytes of device memory
device_buffer(count) == [alloc |-> TRUE, size |-> count, data |-> <<"uninit">>]

\* upload(h_data) copies buf.size bytes from the host pointer.  Reading past
\* the end of the host image is undefined: the copy either delivers the image
\* followed by whatever lies behind it, or the process is killed.
UploadOutcomes(buf, host) ==
    IF MatBytes(host) >= buf.size
    THEN { [killed |-> FALSE, buf |-> [buf EXCEPT !.data = host.data]] }
    ELSE { [killed |-> FALSE,
            buf |-> [buf EXCEPT !.data = <<"overread">> \o host.data]],
           [killed |-> TRUE, buf |-> buf] }

\* download(h_data) copies buf.size bytes into the host Mat
Download(buf, host) == [host EXCEPT !.data = buf.data]

-----------------------------------------------------------------------------
(* libsgm.h: sgm::StereoSGM *)

NoEngine == [built |-> FALSE]
EXECUTE_INOUT_CUDA2CUDA == "CUDA2CUDA"

StereoSGM(w, h, ds, sd, dd, inout) ==
    [built |-> TRUE, width |-> w, height |-> h, disp_size |-> ds,
     src_depth |-> sd, dst_depth |-> dd, inout |-> inout]

\* get_invalid_disparity(): min_disp - 1 with the default parameters
InvalidDisparity == -1

\* the disparity the engine computes from the two device images
Matched(left, right) == <<"disp", left, right>>

GpuIdle == <<>>

-----------------------------------------------------------------------------
(* the output file name *)

Digit(d) == CASE d = 0 -> "0" [] d = 1 -> "1" [] d = 2 -> "2" [] d = 3 -> "3"
              [] d = 4 -> "4" [] d = 5 -> "5" [] d = 6 -> "6" [] d = 7 -> "7"
              [] d = 8 -> "8" [] d = 9 -> "9"

RECURSIVE Decimal(_)
\* the digits of n >= 0
Decimal(n) == IF n < 10 THEN << Digit(n) >>
              ELSE Decimal(n \div 10) \o << Digit(n % 10) >>

RECURSIVE DecimalNeg(_)
\* the digits of -n for n < 0, without negating n (INT_MIN has no negation)
DecimalNeg(n) ==
    IF n > -10 THEN << Digit(-n) >>
    ELSE LET last == (10 - (n % 10)) % 10
         IN  DecimalNeg((n + last) \div 10) \o << Digit(last) >>

\* operator<<(int)
Signed(n) == IF n < 0 THEN << "-" >> \o DecimalNeg(n) ELSE Decimal(n)

RECURSIVE PadLeft(_, _, _)
\* std::setw(w) with std::setfill(c): pad on the left up to w characters
PadLeft(s, w, c) == IF Len(s) >= w THEN s ELSE PadLeft(<< c >> \o s, w, c)

\* (a variant of Filename that prints the last four digits only)
FilenameLast4(n) ==
    << "disparity_" >> \o PadLeft(Signed(n % 10000), 4, "0") \o << ".png" >>

\* "disparity_" << setw(4) << setfill('0') << frame_no << ".png"
Filename(n) == << "disparity_" >> \o PadLeft(Signed(n), 4, "0") \o << ".png" >>

FullPath(dir, n) == dir \o << "/" >> \o Filename(n)

-----------------------------------------------------------------------------
(* trace events and printed lines *)

Ev(op, n, arg) == [op |-> op, n |-> n, arg |-> arg]
Line(text, n, path) == [line |-> text, n |-> n, path |-> path]

ImwriteOutcomes == {"true", "false", "throw"}

\* What an imread event records of the pair (l, r) it read: whether both
\* sides decoded, whether they form a pair main() accepts as the first one,
\* and whether each side holds at least cap bytes.
ReadInfo(l, r, cap) ==
    [read |-> ~empty(l) /\ ~empty(r),
     pair |-> /\ ~empty(l) /\ ~empty(r)
              /\ l.rows = r.rows /\ l.cols = r.cols /\ l.type = r.type
              /\ l.type \in {CV_8U, CV_16U},
     fits |-> MatBytes(l) >= cap /\ MatBytes(r) >= cap]

-----------------------------------------------------------------------------
(* The Batch Runner: main() of sample/stereosgm_movie.cpp *)

BenchIdle ==
    /\ i = 0 /\ duration = 0 /\ total_duration_us = 0
    /\ average_time_us = <<0, 1>> /\ measured_sum = 0

\* The state after the command line is parsed (lines 43-60).
InitCommon ==
    /\ exit_status = NoExit
    /\ disp_size \in DispSizes
    /\ I1 = EmptyMat /\ I2 = EmptyMat
    /\ disk_first = << EmptyMat, EmptyMat >>
    /\ width = 0 /\ height = 0 /\ src_depth = 0 /\ src_bytes = 0 /\ dst_bytes = 0
    /\ sgm = NoEngine
    /\ d_I1 = NoBuffer /\ d_I2 = NoBuffer /\ d_disparity = NoBuffer
    /\ gpu = GpuIdle
    /\ disparity = EmptyMat
    /\ invalid_disp = 0
    /\ frame_no = 0
    /\ output_disparity = EmptyMat /\ mask = <<>>
    /\ full_path = <<>>
    /\ imwrite_result = "none"
    /\ cout = <<>> /\ cerr = <<>> /\ files = <<>> /\ trace = <<>>

InitMovie ==
    /\ pc = "m_imread_first"
    /\ start_number \in StartNumbers
    /\ total_number \in TotalNumbers
    /\ InitCommon
    /\ BenchIdle

\* lines 62-63
m_imread_first ==
    /\ pc = "m_imread_first"
    /\ I1' \in ImreadResults("L", start_number)
    /\ I2' \in ImreadResults("R", start_number)
    /\ disk_first' = << I1', I2' >>
    /\ trace' = Append(trace, Ev("imread_first", start_number, ReadInfo(I1', I2', 0)))
    /\ pc' = "m_assert_nonempty"
    /\ UNCHANGED << exit_status, argvars, dimvars, devvars, disparity,
                    invalid_disp, frame_no, encvars, full_path, imwrite_result,
                    iovars, benchvars >>

m_frame == << I1, I2, disk_first, argvars, dimvars, devvars, disparity,
              invalid_disp, frame_no, encvars, full_path, imwrite_result,
              cout, files, trace, benchvars >>

\* line 65
m_assert_nonempty ==
    /\ pc = "m_assert_nonempty"
    /\ ASSERT_MSG(NonEmptyPair(I1, I2), "imread failed", "m_assert_same")
    /\ UNCHANGED m_frame

\* line 66
m_assert_same ==
    /\ pc = "m_assert_same"
    /\ ASSERT_MSG(SameSizeAndType(I1, I2),
                  "input images must be same size and type", "m_assert_type")
    /\ UNCHANGED m_frame

\* line 67
m_assert_type ==
    /\ pc = "m_assert_type"
    /\ ASSERT_MSG(SupportedType(I1.type),
                  "input image format must be CV_8U or CV_16U", "m_assert_disp")
    /\ UNCHANGED m_frame

\* line 68
m_assert_disp ==
    /\ pc = "m_assert_disp"
    /\ ASSERT_MSG(ValidDispSize(disp_size),
                  "disparity size must be 64, 128 or 256", "m_dims")
    /\ UNCHANGED m_frame

\* lines 70-77
m_dims ==
    /\ pc = "m_dims"
    /\ width' = I1.cols
    /\ height' = I1.rows
    /\ src_depth' = (IF I1.type = CV_8U THEN 8 ELSE 16)
    /\ src_bytes' = (src_depth' * width' * height') \div 8
    /\ dst_bytes' = (dst_depth * width' * height') \div 8
    /\ pc' = "m_ctor_sgm"
    /\ UNCHANGED << exit_status, argvars, I1, I2, disk_first, devvars,
                    disparity, invalid_disp, frame_no, encvars, full_path,
                    imwrite_result, iovars, trace, benchvars >>

\* line 79
m_ctor_sgm ==
    /\ pc = "m_ctor_sgm"
    /\ sgm' = StereoSGM(width, height, disp_size, src_depth, dst_depth,
                        EXECUTE_INOUT_CUDA2CUDA)
    /\ trace' = Append(trace, Ev("StereoSGM", 0, disp_size))
    /\ pc' = "m_alloc"
    /\ UNCHANGED << exit_status, argvars, I1, I2, disk_first, dimvars,
                    d_I1, d_I2, d_disparity, gpu, disparity, invalid_disp,
                    frame_no, encvars, full_path, imwrite_result, iovars,
                    benchvars >>

\* line 81
m_alloc ==
    /\ pc = "m_alloc"
    /\ d_I1' = device_buffer(src_bytes)
    /\ d_I2' = device_buffer(src_bytes)
    /\ d_disparity' = device_buffer(dst_bytes)
    /\ trace' = trace \o << Ev("alloc", 0, "d_I1"), Ev("alloc", 0, "d_I2"),
                            Ev("alloc", 0, "d_disparity") >>
    /\ pc' = "m_host_disparity"
    /\ UNCHANGED << exit_status, argvars, I1, I2, disk_first, dimvars, sgm, gpu,
                    disparity, invalid_disp, frame_no, encvars, full_path,
                    imwrite_result, iovars, benchvars >>

\* lines 83-85
m_host_disparity ==
    /\ pc = "m_host_disparity"
    /\ disparity' = [rows |-> height, cols |-> width, type |-> CV_16S,
                     data |-> <<"uninit">>]
    /\ invalid_disp' = InvalidDisparity
    /\ pc' = "m_for_init"
    /\ UNCHANGED << exit_status, argvars, I1, I2, disk_first, dimvars, devvars,
                    frame_no, encvars, full_path, imwrite_result, iovars, trace,
                    benchvars >>

\* line 87: int frame_no = start_number
m_for_init ==
    /\ pc = "m_for_init"
    /\ frame_no' = start_number
    /\ pc' = "m_for_cond"
    /\ UNCHANGED << exit_status, argvars, I1, I2, disk_first, dimvars, devvars,
                    disparity, invalid_disp, encvars, full_path, imwrite_result,
                    iovars, trace, benchvars >>

\* (a variant of LoopCond that is off by one)
LoopCondOffByOne(diff) == diff <= total_number

\* the loop's condition, given the value of frame_no - start_number
LoopCond(diff) == diff < total_number

\* line 87: frame_no - start_number < total_number
m_for_cond ==
    /\ pc = "m_for_cond"
    /\ \E r \in IntSub(frame_no, start_number) :
          IF r.trap
          THEN pc' = "exited" /\ exit_status' = Killed
          ELSE /\ pc' = (IF LoopCond(r.val) THEN "m_imread" ELSE "m_return")
               /\ UNCHANGED exit_status
    /\ UNCHANGED << argvars, I1, I2, disk_first, dimvars, devvars, disparity,
                    invalid_disp, frame_no, encvars, full_path, imwrite_result,
                    iovars, trace, benchvars >>

\* lines 89-90.  The files at start_number are the ones line 62-63 read.
m_imread ==
    /\ pc = "m_imread"
    /\ IF frame_no = start_number
       THEN I1' = disk_first[1] /\ I2' = disk_first[2]
       ELSE /\ I1' \in ImreadResults("L", frame_no)
            /\ I2' \in ImreadResults("R", frame_no)
    /\ trace' = Append(trace, Ev("imread", frame_no, ReadInfo(I1', I2', src_bytes)))
    /\ pc' = "m_check_empty"
    /\ UNCHANGED << exit_status, argvars, disk_first, dimvars, devvars,
                    disparity, invalid_disp, frame_no, encvars, full_path,
                    imwrite_result, iovars, benchvars >>

\* what the loop does with the pair just read: "break" or "process"
AfterImread(left, right) ==
    IF empty(left) \/ empty(right) THEN "break" ELSE "process"

\* lines 91-94
m_check_empty ==
    /\ pc = "m_check_empty"
    /\ IF AfterImread(I1, I2) = "break"
       THEN /\ cout' = Append(cout, Line("Finished", frame_no, <<>>))
            /\ pc' = "m_return"
       ELSE /\ pc' = "m_upload1"
            /\ UNCHANGED cout
    /\ UNCHANGED << exit_status, argvars, I1, I2, disk_first, dimvars, devvars,
                    disparity, invalid_disp, frame_no, encvars, full_path,
                    imwrite_result, cerr, files, trace, benchvars >>

\* (a variant of m_upload1 that first allocates a left buffer of the frame's
\* own size)
m_upload1Realloc ==
    /\ pc = "m_upload1"
    /\ d_I1' = [device_buffer(MatBytes(I1)) EXCEPT !.data = I1.data]
    /\ trace' = trace \o << Ev("alloc", 0, "d_I1"), Ev("upload", frame_no, "d_I1") >>
    /\ pc' = "m_upload2"
    /\ UNCHANGED << exit_status, argvars, I1, I2, disk_first, dimvars, sgm, d_I2,
                    d_disparity, gpu, disparity, invalid_disp, frame_no, encvars,
                    full_path, imwrite_result, iovars, benchvars >>

\* line 96
m_upload1 ==
    /\ pc = "m_upload1"
    /\ \E r \in UploadOutcomes(d_I1, I1) :
          /\ d_I1' = r.buf
          /\ IF r.killed
             THEN pc' = "exited" /\ exit_status' = Killed
             ELSE pc' = "m_upload2" /\ UNCHANGED exit_status
    /\ trace' = Append(trace, Ev("upload", frame_no, "d_I1"))
    /\ UNCHANGED << argvars, I1, I2, disk_first, dimvars, sgm, d_I2, d_disparity,
                    gpu, disparity, invalid_disp, frame_no, encvars, full_path,
                    imwrite_result, iovars, benchvars >>

\* line 97
m_upload2 ==
    /\ pc = "m_upload2"
    /\ \E r \in UploadOutcomes(d_I2, I2) :
          /\ d_I2' = r.buf
          /\ IF r.killed
             THEN pc' = "exited" /\ exit_status' = Killed
             ELSE pc' = "m_t1" /\ UNCHANGED exit_status
    /\ trace' = Append(trace, Ev("upload", frame_no, "d_I2"))
    /\ UNCHANGED << argvars, I1, I2, disk_first, dimvars, sgm, d_I1, d_disparity,
                    gpu, disparity, invalid_disp, frame_no, encvars, full_path,
                    imwrite_result, iovars, benchvars >>

\* line 99
m_t1 ==
    /\ pc = "m_t1"
    /\ trace' = Append(trace, Ev("t1", frame_no, 0))
    /\ pc' = "m_execute"
    /\ UNCHANGED << exit_status, argvars, I1, I2, disk_first, dimvars, devvars,
                    disparity, invalid_disp, frame_no, encvars, full_path,
                    imwrite_result, iovars, benchvars >>

\* line 101: the matching is queued on the device
m_execute ==
    /\ pc = "m_execute"
    /\ gpu' = Matched(d_I1.data, d_I2.data)
    /\ trace' = Append(trace, Ev("execute", frame_no, 0))
    /\ pc' = "m_sync"
    /\ UNCHANGED << exit_status, argvars, I1, I2, disk_first, dimvars, sgm,
                    d_I1, d_I2, d_disparity, disparity, invalid_disp, frame_no,
                    encvars, full_path, imwrite_result, iovars, benchvars >>

\* (a variant of m_sync that does not wait for the device)
m_syncSkipped ==
    /\ pc = "m_sync"
    /\ pc' = "m_t2"
    /\ UNCHANGED << exit_status, argvars, I1, I2, disk_first, dimvars, devvars,
                    disparity, invalid_disp, frame_no, encvars, full_path,
                    imwrite_result, iovars, trace, benchvars >>

\* line 102: cudaDeviceSynchronize() returns when the queued work is done
m_sync ==
    /\ pc = "m_sync"
    /\ d_disparity' = (IF gpu = GpuIdle THEN d_disparity
                       ELSE [d_disparity EXCEPT !.data = gpu])
    /\ gpu' = GpuIdle
    /\ trace' = Append(trace, Ev("sync", frame_no, 0))
    /\ pc' = "m_t2"
    /\ UNCHANGED << exit_status, argvars, I1, I2, disk_first, dimvars, sgm,
                    d_I1, d_I2, disparity, invalid_disp, frame_no, encvars,
                    full_path, imwrite_result, iovars, benchvars >>

\* (a variant of m_t2 that samples the end timestamp after the download)
m_t2AfterDownload ==
    /\ pc = "m_t2"
    /\ disparity' = Download(d_disparity, disparity)
    /\ trace' = trace \o << Ev("download", frame_no, 0), Ev("t2", frame_no, 0) >>
    /\ pc' = "m_encode"
    /\ UNCHANGED << exit_status, argvars, I1, I2, disk_first, dimvars, devvars,
                    invalid_disp, frame_no, encvars, full_path, imwrite_result,
                    iovars, benchvars >>

\* lines 104-106
m_t2 ==
    /\ pc = "m_t2"
    /\ trace' = Append(trace, Ev("t2", frame_no, 0))
    /\ pc' = "m_download"
    /\ UNCHANGED << exit_status, argvars, I1, I2, disk_first, dimvars, devvars,
                    disparity, invalid_disp, frame_no, encvars, full_path,
                    imwrite_result, iovars, benchvars >>

\* (a variant of m_download that leaves the host disparity as it was)
m_downloadStale ==
    /\ pc = "m_download"
    /\ trace' = Append(trace, Ev("download", frame_no, 0))
    /\ pc' = "m_encode"
    /\ UNCHANGED << exit_status, argvars, I1, I2, disk_first, dimvars, devvars,
                    disparity, invalid_disp, frame_no, encvars, full_path,
                    imwrite_result, iovars, benchvars >>

\* line 108
m_download ==
    /\ pc = "m_download"
    /\ disparity' = Download(d_disparity, disparity)
    /\ trace' = Append(trace, Ev("download", frame_no, 0))
    /\ pc' = "m_encode"
    /\ UNCHANGED << exit_status, argvars, I1, I2, disk_first, dimvars, devvars,
                    invalid_disp, frame_no, encvars, full_path, imwrite_result,
                    iovars, benchvars >>

\* lines 113-120, on whole maps (the e_ actions below do it sample by sample)
m_encode ==
    /\ pc = "m_encode"
    /\ output_disparity' = [rows |-> disparity.rows, cols |-> disparity.cols,
                            type |-> CV_16U,
                            data |-> <<"encoded", disparity.data, invalid_disp>>]
    /\ mask' = <<"mask", disparity.data, invalid_disp>>
    /\ trace' = Append(trace, Ev("encode", frame_no, 0))
    /\ pc' = "m_path"
    /\ UNCHANGED << exit_status, argvars, I1, I2, disk_first, dimvars, devvars,
                    disparity, invalid_disp, frame_no, full_path, imwrite_result,
                    iovars, benchvars >>

\* lines 123-128
m_path ==
    /\ pc = "m_path"
    /\ full_path' = FullPath(output_path, frame_no)
    /\ pc' = "m_imwrite"
    /\ UNCHANGED << exit_status, argvars, I1, I2, disk_first, dimvars, devvars,
                    disparity, invalid_disp, frame_no, encvars, imwrite_result,
                    iovars, trace, benchvars >>

\* (a variant of AfterImwrite that leaves the loop when the write failed)
AfterImwriteBreak(r) == IF r = "true" THEN "m_log_saved" ELSE "m_return"

\* where control goes after cv::imwrite ended with result r
AfterImwrite(r) == IF r = "throw" THEN "m_catch" ELSE "m_log_saved"

\* line 131: cv::imwrite returns true (written), returns false (not written)
\* or throws cv::Exception
m_imwrite ==
    /\ pc = "m_imwrite"
    /\ \E r \in ImwriteOutcomes :
          /\ imwrite_result' = r
          /\ files' = (IF r = "true"
                       THEN Append(files, [path |-> full_path, n |-> frame_no,
                                           image |-> output_disparity])
                       ELSE files)
          /\ trace' = Append(trace, Ev("imwrite", frame_no, r))
          /\ pc' = AfterImwrite(r)
    /\ UNCHANGED << exit_status, argvars, I1, I2, disk_first, dimvars, devvars,
                    disparity, invalid_disp, frame_no, encvars, full_path, cout,
                    cerr, benchvars >>

\* lines 133-134
m_log_saved ==
    /\ pc = "m_log_saved"
    /\ cout' = Append(cout, Line("Saved to", frame_no, full_path))
    /\ pc' = "m_for_incr"
    /\ UNCHANGED << exit_status, argvars, I1, I2, disk_first, dimvars, devvars,
                    disparity, invalid_disp, frame_no, encvars, full_path,
                    imwrite_result, cerr, files, trace, benchvars >>

\* lines 136-138
m_catch ==
    /\ pc = "m_catch"
    /\ cerr' = Append(cerr, Line("Error saving frame", frame_no, full_path))
    /\ pc' = "m_for_incr"
    /\ UNCHANGED << exit_status, argvars, I1, I2, disk_first, dimvars, devvars,
                    disparity, invalid_disp, frame_no, encvars, full_path,
                    imwrite_result, cout, files, trace, benchvars >>

\* line 87: frame_no++ (output_disparity, filename and full_path go out of
\* scope at the end of the body)
m_for_incr ==
    /\ pc = "m_for_incr"
    /\ \E r \in IntAdd(frame_no, 1) :
          IF r.trap
          THEN pc' = "exited" /\ exit_status' = Killed /\ UNCHANGED frame_no
          ELSE pc' = "m_for_cond" /\ frame_no' = r.val /\ UNCHANGED exit_status
    /\ output_disparity' = EmptyMat
    /\ mask' = <<>>
    /\ full_path' = <<>>
    /\ imwrite_result' = "none"
    /\ UNCHANGED << argvars, I1, I2, disk_first, dimvars, devvars, disparity,
                    invalid_disp, iovars, trace, benchvars >>

\* line 143: return 0 (the destructors release the buffers and the engine)
m_return ==
    /\ pc = "m_return"
    /\ exit_status' = EXIT_SUCCESS
    /\ d_I1' = NoBuffer /\ d_I2' = NoBuffer /\ d_disparity' = NoBuffer
    /\ sgm' = NoEngine
    /\ trace' = Append(trace, Ev("release", 0, 0))
    /\ pc' = "exited"
    /\ UNCHANGED << argvars, I1, I2, disk_first, dimvars, gpu, disparity,
                    invalid_disp, frame_no, encvars, full_path, imwrite_result,
                    iovars, benchvars >>

NextMovie ==
    \/ m_imread_first \/ m_assert_nonempty \/ m_assert_same \/ m_assert_type
    \/ m_assert_disp \/ m_dims \/ m_ctor_sgm \/ m_alloc \/ m_host_disparity
    \/ m_for_init \/ m_for_cond \/ m_imread \/ m_check_empty \/ m_upload1
    \/ m_upload2 \/ m_t1 \/ m_execute \/ m_sync \/ m_t2 \/ m_download
    \/ m_encode \/ m_path \/ m_imwrite \/ m_log_saved \/ m_catch \/ m_for_incr
    \/ m_return

Spec == InitMovie /\ [][NextMovie]_vars

-----------------------------------------------------------------------------
(* The Benchmark Runner: main() of sample/stereosgm_test_time.cpp *)

BenchStartNumbers == {0, INT_MAX}

InitBench ==
    /\ pc = "b_imread"
    /\ start_number \in BenchStartNumbers
    /\ total_number = 0
    /\ InitCommon
    /\ BenchIdle

b_rest == << frame_no, disparity, invalid_disp, encvars, full_path,
             imwrite_result, files, disk_first, total_number >>

\* lines 66-67
b_imread ==
    /\ pc = "b_imread"
    /\ I1' \in ImreadResults("L", start_number)
    /\ I2' \in ImreadResults("R", start_number)
    /\ trace' = Append(trace, Ev("imread_first", start_number, ReadInfo(I1', I2', 0)))
    /\ pc' = "b_assert_nonempty"
    /\ UNCHANGED << exit_status, disp_size, start_number, dimvars, devvars,
                    cout, cerr, benchvars, b_rest >>

b_frame == << I1, I2, disp_size, start_number, dimvars, devvars, cout, trace,
              benchvars, b_rest >>

\* line 69
b_assert_nonempty ==
    /\ pc = "b_assert_nonempty"
    /\ ASSERT_MSG(NonEmptyPair(I1, I2), "imread failed", "b_assert_same")
    /\ UNCHANGED b_frame

\* line 70
b_assert_same ==
    /\ pc = "b_assert_same"
    /\ ASSERT_MSG(SameSizeAndType(I1, I2),
                  "input images must be same size and type", "b_check_type")
    /\ UNCHANGED b_frame

\* lines 71-77
b_check_type ==
    /\ pc = "b_check_type"
    /\ IF ~SupportedType(I1.type)
       THEN /\ cerr' = Append(cerr, Line("Error: Input image format is not supported",
                                         0, <<>>))
            /\ exit_status' = EXIT_FAILURE
            /\ pc' = "exited"
       ELSE /\ pc' = "b_assert_disp"
            /\ UNCHANGED << cerr, exit_status >>
    /\ UNCHANGED b_frame

\* line 79
b_assert_disp ==
    /\ pc = "b_assert_disp"
    /\ ASSERT_MSG(ValidDispSize(disp_size),
                  "disparity size must be 64, 128 or 256", "b_dims")
    /\ UNCHANGED b_frame

\* lines 81-87
b_dims ==
    /\ pc = "b_dims"
    /\ width' = I1.cols
    /\ height' = I1.rows
    /\ src_depth' = (IF I1.type = CV_8U THEN 8 ELSE 16)
    /\ src_bytes' = (src_depth' * width' * height') \div 8
    /\ dst_bytes' = (dst_depth * width' * height') \div 8
    /\ pc' = "b_ctor_sgm"
    /\ UNCHANGED << exit_status, I1, I2, disp_size, start_number, devvars,
                    cout, cerr, trace, benchvars, b_rest >>

\* line 89
b_ctor_sgm ==
    /\ pc = "b_ctor_sgm"
    /\ sgm' = StereoSGM(width, height, disp_size, src_depth, dst_depth,
                        EXECUTE_INOUT_CUDA2CUDA)
    /\ trace' = Append(trace, Ev("StereoSGM", 0, disp_size))
    /\ pc' = "b_alloc"
    /\ UNCHANGED << exit_status, I1, I2, disp_size, start_number, dimvars,
                    d_I1, d_I2, d_disparity, gpu, cout, cerr, benchvars, b_rest >>

\* line 91
b_alloc ==
    /\ pc = "b_alloc"
    /\ d_I1' = device_buffer(src_bytes)
    /\ d_I2' = device_buffer(src_bytes)
    /\ d_disparity' = device_buffer(dst_bytes)
    /\ trace' = trace \o << Ev("alloc", 0, "d_I1"), Ev("alloc", 0, "d_I2"),
                            Ev("alloc", 0, "d_disparity") >>
    /\ pc' = "b_upload1"
    /\ UNCHANGED << exit_status, I1, I2, disp_size, start_number, dimvars,
                    sgm, gpu, cout, cerr, benchvars, b_rest >>

\* line 94
b_upload1 ==
    /\ pc = "b_upload1"
    /\ \E r \in UploadOutcomes(d_I1, I1) :
          /\ d_I1' = r.buf
          /\ IF r.killed
             THEN pc' = "exited" /\ exit_status' = Killed
             ELSE pc' = "b_upload2" /\ UNCHANGED exit_status
    /\ trace' = Append(trace, Ev("upload", start_number, "d_I1"))
    /\ UNCHANGED << I1, I2, disp_size, start_number, dimvars, sgm, d_I2,
                    d_disparity, gpu, cout, cerr, benchvars, b_rest >>

\* line 95
b_upload2 ==
    /\ pc = "b_upload2"
    /\ \E r \in UploadOutcomes(d_I2, I2) :
          /\ d_I2' = r.buf
          /\ IF r.killed
             THEN pc' = "exited" /\ exit_status' = Killed
             ELSE pc' = "b_start" /\ UNCHANGED exit_status
    /\ trace' = Append(trace, Ev("upload", start_number, "d_I2"))
    /\ UNCHANGED << I1, I2, disp_size, start_number, dimvars, sgm, d_I1,
                    d_disparity, gpu, cout, cerr, benchvars, b_rest >>

\* lines 102-110: the counters, the banner, int i = 0
b_start ==
    /\ pc = "b_start"
    /\ total_duration_us' = 0
    /\ cout' = Append(cout, Line("Starting performance measurement", 0, <<>>))
    /\ i' = 0
    /\ pc' = "b_for_cond"
    /\ UNCHANGED << exit_status, I1, I2, disp_size, start_number, dimvars,
                    devvars, cerr, trace, duration, average_time_us,
                    measured_sum, b_rest >>

\* the loop's condition
BenchLoopCond(k) == k < WARMUP_RUNS + MEASUREMENT_RUNS

\* line 110: i < WARMUP_RUNS + MEASUREMENT_RUNS
b_for_cond ==
    /\ pc = "b_for_cond"
    /\ pc' = (IF BenchLoopCond(i) THEN "b_t1" ELSE "b_average")
    /\ UNCHANGED << exit_status, I1, I2, disp_size, start_number, dimvars,
                    devvars, cout, cerr, trace, benchvars, b_rest >>

\* (a variant of b_t1 for a loop that uploads the left image again in every
\* iteration)
b_t1Reupload ==
    /\ pc = "b_t1"
    /\ trace' = trace \o << Ev("upload", start_number, "d_I1"), Ev("t1", i, 0) >>
    /\ pc' = "b_execute"
    /\ UNCHANGED << exit_status, I1, I2, disp_size, start_number, dimvars,
                    devvars, cout, cerr, benchvars, b_rest >>

\* line 112
b_t1 ==
    /\ pc = "b_t1"
    /\ trace' = Append(trace, Ev("t1", i, 0))
    /\ pc' = "b_execute"
    /\ UNCHANGED << exit_status, I1, I2, disp_size, start_number, dimvars,
                    devvars, cout, cerr, benchvars, b_rest >>

\* line 114
b_execute ==
    /\ pc = "b_execute"
    /\ gpu' = Matched(d_I1.data, d_I2.data)
    /\ trace' = Append(trace, Ev("execute", i, 0))
    /\ pc' = "b_sync"
    /\ UNCHANGED << exit_status, I1, I2, disp_size, start_number, dimvars, sgm,
                    d_I1, d_I2, d_disparity, cout, cerr, benchvars, b_rest >>

\* line 115
b_sync ==
    /\ pc = "b_sync"
    /\ d_disparity' = (IF gpu = GpuIdle THEN d_disparity
                       ELSE [d_disparity EXCEPT !.data = gpu])
    /\ gpu' = GpuIdle
    /\ trace' = Append(trace, Ev("sync", i, 0))
    /\ pc' = "b_t2"
    /\ UNCHANGED << exit_status, I1, I2, disp_size, start_number, dimvars, sgm,
                    d_I1, d_I2, cout, cerr, benchvars, b_rest >>

\* line 117: t2 is sampled; duration holds t2 - t1 in microseconds.  The
\* clock's readings of iterations 20..69 are summed in measured_sum as they
\* are made.
b_t2 ==
    /\ pc = "b_t2"
    /\ \E d \in 0..MaxDur :
          /\ duration' = d
          /\ measured_sum' = (IF 20 <= i /\ i <= 69 THEN measured_sum + d
                              ELSE measured_sum)
    /\ trace' = Append(trace, Ev("t2", i, 0))
    /\ pc' = "b_accumulate"
    /\ UNCHANGED << exit_status, I1, I2, disp_size, start_number, dimvars,
                    devvars, cout, cerr, i, total_duration_us, average_time_us,
                    b_rest >>

\* (a variant of Measured that also skips the first measured iteration)
MeasuredAfter(k) == k > WARMUP_RUNS

\* whether iteration k's duration is accumulated
Measured(k) == k >= WARMUP_RUNS

\* lines 120-123
b_accumulate ==
    /\ pc = "b_accumulate"
    /\ total_duration_us' = (IF Measured(i) THEN total_duration_us + duration
                             ELSE total_duration_us)
    /\ trace' = (IF Measured(i) THEN Append(trace, Ev("add", i, 0)) ELSE trace)
    /\ pc' = "b_for_incr"
    /\ UNCHANGED << exit_status, I1, I2, disp_size, start_number, dimvars,
                    devvars, cout, cerr, i, duration, average_time_us,
                    measured_sum, b_rest >>

\* line 110: ++i (t1, t2 and duration go out of scope)
b_for_incr ==
    /\ pc = "b_for_incr"
    /\ i' = i + 1
    /\ duration' = 0
    /\ pc' = "b_for_cond"
    /\ UNCHANGED << exit_status, I1, I2, disp_size, start_number, dimvars,
                    devvars, cout, cerr, trace, total_duration_us,
                    average_time_us, measured_sum, b_rest >>

\* the quotient a / b of two doubles, kept as the fraction <<a, b>>
Quotient(a, b) == << a, b >>

\* line 127
b_average ==
    /\ pc = "b_average"
    /\ average_time_us' = Quotient(total_duration_us, MEASUREMENT_RUNS)
    /\ pc' = "b_report"
    /\ UNCHANGED << exit_status, I1, I2, disp_size, start_number, dimvars,
                    devvars, cout, cerr, trace, i, duration, total_duration_us,
                    measured_sum, b_rest >>

\* lines 128-136: the average in milliseconds is printed; return 0
b_report ==
    /\ pc = "b_report"
    /\ cout' = Append(cout, [line |-> "Average execution time", n |-> MEASUREMENT_RUNS,
                             path |-> Quotient(average_time_us[1],
                                               average_time_us[2] * 1000)])
    /\ exit_status' = EXIT_SUCCESS
    /\ d_I1' = NoBuffer /\ d_I2' = NoBuffer /\ d_disparity' = NoBuffer
    /\ sgm' = NoEngine
    /\ trace' = Append(trace, Ev("release", 0, 0))
    /\ pc' = "exited"
    /\ UNCHANGED << I1, I2, disp_size, start_number, dimvars, gpu, cerr,
                    benchvars, b_rest >>

NextBench ==
    \/ b_imread \/ b_assert_nonempty \/ b_assert_same \/ b_check_type
    \/ b_assert_disp \/ b_dims \/ b_ctor_sgm \/ b_alloc \/ b_upload1
    \/ b_upload2 \/ b_start \/ b_for_cond \/ b_t1 \/ b_execute \/ b_sync
    \/ b_t2 \/ b_accumulate \/ b_for_incr \/ b_average \/ b_report

SpecBench == InitBench /\ [][NextBench]_vars

\* either of the two programs
SpecBoth == (InitMovie \/ InitBench) /\ [][NextMovie \/ NextBench]_vars

-----------------------------------------------------------------------------
(* The Disparity Encoder: lines 113-120 of sample/stereosgm_movie.cpp on the *)
(* samples of a downloaded disparity map                                     *)

\* signed 16-bit samples the engine can leave in a disparity map
Samples == {SHRT_MIN, -16, -2, -1, 0, 1, 2, 255, 655, 656, SHRT_MAX}
\* values of get_invalid_disparity(): -1 and -16 are libSGM's (without and
\* with sub-pixel estimation); 0 and 255 stand for any other engine's
Sentinels == {-1, -16, 0, 255}

RECURSIVE SeqsUpTo(_, _)
\* the sequences over S of length 1..n
SeqsUpTo(S, n) ==
    IF n = 0 THEN {}
    ELSE LET shorter == SeqsUpTo(S, n - 1)
         IN  { << x >> : x \in S } \cup shorter
               \cup { Append(q, x) : q \in shorter, x \in S }

\* (a variant of the cast that keeps the low 16 bits)
wrap_cast_ushort(x) == x % (USHRT_MAX + 1)

\* cv::saturate_cast<ushort>
saturate_cast_ushort(x) ==
    IF x < 0 THEN 0 ELSE IF x > USHRT_MAX THEN USHRT_MAX ELSE x

\* (a variant of convertTo that leaves out the scale factor)
convertToUnscaled(m, alpha) ==
    [rows |-> m.rows, cols |-> m.cols, type |-> CV_16U,
     data |-> [k \in DOMAIN m.data |-> saturate_cast_ushort(m.data[k])]]

\* m.convertTo(dst, CV_16U, alpha): every sample scaled and saturated;
\* dst gets m's size
convertTo(m, alpha) ==
    [rows |-> m.rows, cols |-> m.cols, type |-> CV_16U,
     data |-> [k \in DOMAIN m.data |-> saturate_cast_ushort(m.data[k] * alpha)]]

\* m == value: 255 where the sample equals value, 0 elsewhere
CompareEQ(m, value) ==
    [k \in DOMAIN m.data |-> IF m.data[k] = value THEN 255 ELSE 0]

\* (a variant of setTo that writes where the mask is zero)
setToInverted(m, value, msk) ==
    [m EXCEPT !.data = [k \in DOMAIN m.data |->
                           IF msk[k] = 0 THEN value ELSE m.data[k]]]

\* m.setTo(value, msk): value where the mask is non-zero
setTo(m, value, msk) ==
    [m EXCEPT !.data = [k \in DOMAIN m.data |->
                           IF msk[k] # 0 THEN value ELSE m.data[k]]]

\* the state after line 108 downloaded a disparity map
InitEncoder ==
    /\ pc = "e_convertTo"
    /\ exit_status = NoExit
    /\ disp_size = 128 /\ start_number = 0 /\ total_number = 1
    /\ I1 = EmptyMat /\ I2 = EmptyMat
    /\ disk_first = << EmptyMat, EmptyMat >>
    /\ \E q \in SeqsUpTo(Samples, MaxPixels) :
          /\ disparity = [rows |-> 1, cols |-> Len(q), type |-> CV_16S, data |-> q]
          /\ width = Len(q)
          /\ dst_bytes = (dst_depth * Len(q)) \div 8
    /\ height = 1 /\ src_depth = 8 /\ src_bytes = width
    /\ sgm = NoEngine
    /\ d_I1 = NoBuffer /\ d_I2 = NoBuffer /\ d_disparity = NoBuffer
    /\ gpu = GpuIdle
    /\ invalid_disp \in Sentinels
    /\ frame_no = 0
    /\ output_disparity = EmptyMat /\ mask = <<>>
    /\ full_path = <<>>
    /\ imwrite_result = "none"
    /\ cout = <<>> /\ cerr = <<>> /\ files = <<>> /\ trace = <<>>
    /\ BenchIdle

e_rest == << exit_status, argvars, I1, I2, disk_first, dimvars, devvars,
             disparity, invalid_disp, frame_no, full_path, imwrite_result,
             iovars, trace, benchvars >>

\* line 115
e_convertTo ==
    /\ pc = "e_convertTo"
    /\ output_disparity' = convertTo(disparity, 100)
    /\ pc' = "e_mask"
    /\ UNCHANGED << mask, e_rest >>

\* line 118
e_mask ==
    /\ pc = "e_mask"
    /\ mask' = CompareEQ(disparity, invalid_disp)
    /\ pc' = "e_setTo"
    /\ UNCHANGED << output_disparity, e_rest >>

\* line 120
e_setTo ==
    /\ pc = "e_setTo"
    /\ output_disparity' = setTo(output_disparity, 0, mask)
    /\ pc' = "e_done"
    /\ UNCHANGED << mask, e_rest >>

NextEncoder == e_convertTo \/ e_mask \/ e_setTo

SpecEncoder == InitEncoder /\ [][NextEncoder]_vars

-----------------------------------------------------------------------------
(* Properties of the Batch Runner (Spec) *)

Min(a, b) == IF a < b THEN a ELSE b

\* the positions of the trace holding an event of kind op
At(op) == { p \in 1..Len(trace) : trace[p].op = op }

\* the loop's imread events that found both files, in order
ProcessedFrames == SelectSeq(trace, LAMBDA e : e.op = "imread" /\ e.arg.read)

\* C1: the processed frames are start_number, start_number+1, ... in this
\* order, none skipped or repeated; once an index was unreadable no higher
\* index is loaded, uploaded or written; and at most total_number outputs are
\* written.
C1_FramesInOrder ==
    /\ \A k \in 1..Len(ProcessedFrames) :
          /\ ~AddOverflows(start_number, k - 1)
          /\ ProcessedFrames[k].n = start_number + (k - 1)
    /\ \A p \in At("imread") : \A q \in 1..Len(trace) :
          (~trace[p].arg.read /\ trace[q].op \in {"imread", "upload", "imwrite"})
             => trace[q].n <= trace[p].n
    /\ Len(files) <= total_number
    /\ Cardinality(At("imwrite")) <= total_number

\* The files on disk are as C2 supposes for k: start_number+k is a frame
\* index, the first pair and disp_size are accepted, every frame read in
\* start_number .. start_number+k-1 decoded on both sides into images that
\* fill the device buffers, the frame start_number+k (if read) did not
\* decode, and no write failed.
C2_Premise(k) ==
    /\ ~AddOverflows(start_number, k)
    /\ ReadInfo(disk_first[1], disk_first[2], 0).pair
    /\ disp_size \in {64, 128, 256}
    /\ \A p \in At("imread") :
          /\ (start_number <= trace[p].n /\ trace[p].n < start_number + k)
                => (trace[p].arg.read /\ trace[p].arg.fits)
          /\ trace[p].n = start_number + k => ~trace[p].arg.read
    /\ \A p \in At("imwrite") : trace[p].arg = "true"

\* C2: with a valid first pair, frames start_number .. start_number+k-1
\* readable, frame start_number+k unreadable and every write succeeding, the
\* run ends with exit status 0 having written exactly min(k, total_number)
\* files, one per index start_number .. start_number+min(k,total_number)-1.
C2_ReadablePrefixWritten ==
    pc = "exited" =>
       \A k \in 1..(total_number + 1) :
          C2_Premise(k) =>
             /\ exit_status = EXIT_SUCCESS
             /\ Len(files) = Min(k, total_number)
             /\ \A j \in 1..Len(files) : files[j].n = start_number + (j - 1)

\* fewer readable frames than total_number: one output, no error
C2_Witness ==
    /\ pc = "exited"
    /\ total_number = 2
    /\ C2_Premise(1)
    /\ Len(files) = 1
    /\ exit_status = EXIT_SUCCESS

\* frame n+1 is a frame of the range [start_number, start_number+total_number)
NextInRange(n) ==
    /\ start_number <= n
    /\ n < INT_MAX
    /\ (n - start_number) + 1 < total_number

\* C3: however the write of frame n ended (true, false or an exception), the
\* loop goes on: if frame n+1 is in the range it is loaded, and if it is
\* readable (and fills the device buffers) it is matched and a write of it
\* is attempted.
C3_WriteFailureDoesNotAbort ==
    pc = "exited" =>
       \A p \in At("imwrite") :
          NextInRange(trace[p].n) =>
             \E q \in At("imread") :
                /\ q > p
                /\ trace[q].n = trace[p].n + 1
                /\ (trace[q].arg.read /\ trace[q].arg.fits) =>
                      /\ \E x \in At("execute") : x > q /\ trace[x].n = trace[q].n
                      /\ \E w \in At("imwrite") : w > q /\ trace[w].n = trace[q].n

\* a write that threw and a write that returned false, each followed by the
\* next frame's write
C3_Witness ==
    /\ pc = "exited"
    /\ \E p, w \in At("imwrite") :
          /\ trace[p].arg = "throw"
          /\ NextInRange(trace[p].n)
          /\ trace[w].n = trace[p].n + 1
          /\ trace[w].arg = "false"

\* C4: every failed write is reported as an error for its frame, and no
\* "Saved to" line is printed for it.
C4_FailedWriteReported ==
    pc = "exited" =>
       \A p \in At("imwrite") :
          trace[p].arg # "true" =>
             /\ \A c \in 1..Len(cout) :
                   ~(cout[c].line = "Saved to" /\ cout[c].n = trace[p].n)
             /\ \E c \in 1..Len(cerr) :
                   cerr[c].line = "Error saving frame" /\ cerr[c].n = trace[p].n

\* the first pair, as read, is one main() must reject
C9_FirstPairBad ==
    /\ trace # <<>>
    /\ trace[1].op = "imread_first"
    /\ ~trace[1].arg.pair

\* the engine or a device buffer exists, or was ever created
DeviceResource ==
    \/ sgm.built \/ d_I1.alloc \/ d_I2.alloc \/ d_disparity.alloc
    \/ At("StereoSGM") # {} \/ At("alloc") # {}

\* C9: when the pair at start_number cannot be loaded or is invalid, the run
\* ends with a failure, and neither the engine nor a device buffer is ever
\* created nor an output written, whatever total_number is.
C9_BadFirstPairAborts ==
    C9_FirstPairBad =>
       /\ ~DeviceResource
       /\ files = <<>> /\ At("imwrite") = {}
       /\ pc \in {"m_assert_nonempty", "m_assert_same", "m_assert_type", "exited"}
       /\ pc = "exited" => exit_status = EXIT_FAILURE

\* both files decode, to images of different types; total_number = 0
C9_Witness ==
    /\ C9_FirstPairBad
    /\ trace[1].arg.read
    /\ I1.type # I2.type
    /\ total_number = 0
    /\ pc = "exited"
    /\ exit_status = EXIT_FAILURE

\* C10: a pair loaded in the loop after start_number whose sides differ in
\* size or depth, or whose depth is unsupported, aborts the run as a fatal
\* error: nothing is uploaded, matched or written for that frame.
C10_MidBatchInvalidAborts ==
    \A p \in At("imread") :
       (trace[p].n > start_number /\ trace[p].arg.read /\ ~trace[p].arg.pair) =>
          /\ \A q \in 1..Len(trace) :
                (q > p /\ trace[q].op \in {"upload", "execute", "imwrite"})
                   => trace[q].n # trace[p].n
          /\ pc = "exited" => exit_status = EXIT_FAILURE

\* C13: whenever the Batch Runner is about to upload a frame image, the host
\* image holds at least as many bytes as the device buffer it is copied into
\* (src_bytes of the first frame), for every frame of the batch.
C13_HostImageFillsBuffer ==
    /\ pc = "m_upload1" => (d_I1.size = src_bytes /\ MatBytes(I1) >= d_I1.size)
    /\ pc = "m_upload2" => (d_I2.size = src_bytes /\ MatBytes(I2) >= d_I2.size)

\* the steps of the loop's body, in the order C14 gives them
StepOps == << "imread", "upload", "upload", "execute", "sync", "download",
              "encode", "imwrite" >>

\* the events of the trace that are steps of the loop's body, in order
Steps == SelectSeq(trace, LAMBDA e : e.op \in {"imread", "upload", "execute",
                                               "sync", "download", "encode",
                                               "imwrite"})

\* what a device image can hold after the upload of side `side` of frame n:
\* the image, or (when the image is smaller than the buffer) the image
\* followed by the bytes behind it
UploadedFrom(side, n) == { << side, n >>, << "overread", side, n >> }

\* the encodings of the disparity matched from the uploads of frame n
EncodedFrom(n) ==
    { << "encoded", Matched(l, r), invalid_disp >> :
        l \in UploadedFrom("L", n), r \in UploadedFrom("R", n) }

\* C14: the steps of the loop come in rounds load, upload left, upload right,
\* execute, synchronise, download, encode, write, each round on one frame
\* (only the last round may be cut short, by an unreadable frame or the end
\* of the process); and the image handed to the write of frame n, and every
\* file written for frame n, is the encoding of the disparity that the
\* matching call computed from the uploads of frame n.
C14_StepsInOrderOwnDisparity ==
    LET st == Steps
    IN  /\ \A p \in 1..Len(st) :
              LET k == ((p - 1) % 8) + 1
              IN  /\ st[p].op = StepOps[k]
                  /\ k = 2 => (st[p].arg = "d_I1" /\ st[p - 1].arg.read)
                  /\ k = 3 => st[p].arg = "d_I2"
                  /\ k > 1 => st[p].n = st[p - 1].n
        /\ pc = "m_imwrite" => output_disparity.data \in EncodedFrom(frame_no)
        /\ \A j \in 1..Len(files) : files[j].image.data \in EncodedFrom(files[j].n)

\* two frames were written, the second from its own disparity
C14_Witness ==
    /\ pc = "exited"
    /\ Len(files) = 2
    /\ files[1].image.data # files[2].image.data
    /\ files[2].image.data =
          << "encoded", Matched(<< "L", files[2].n >>, << "R", files[2].n >>),
             invalid_disp >>
    /\ Len(Steps) = 16

\* the positions of main() inside the for statement of line 87
LoopPcs == {"m_for_cond", "m_imread", "m_check_empty", "m_upload1", "m_upload2",
            "m_t1", "m_execute", "m_sync", "m_t2", "m_download", "m_encode",
            "m_path", "m_imwrite", "m_log_saved", "m_catch", "m_for_incr"}

\* the device buffers in the order line 81 declares them
BufferNames == << "d_I1", "d_I2", "d_disparity" >>

\* C15: the engine is created once and each of the three device buffers once
\* (the events 2 to 5 of a run, after the first imread), every step of the
\* loop comes after them, and they are released only by the last event of the
\* run; during the loop all four exist and the buffers keep the sizes
\* computed from the first frame.
C15_CreatedOnce ==
    /\ \A p \in 1..Len(trace) :
          LET op == trace[p].op
          IN  /\ op = "StereoSGM" => p = 2
              /\ op = "alloc" => (p \in 3..5 /\ trace[p].arg = BufferNames[p - 2])
              /\ op = "release" => (p = Len(trace) /\ pc = "exited")
              /\ op \notin {"imread_first", "StereoSGM", "alloc", "release"} => p > 5
    /\ pc \in LoopPcs =>
          /\ Len(trace) >= 5
          /\ trace[2].op = "StereoSGM"
          /\ \A p \in 3..5 : trace[p].op = "alloc"
          /\ sgm = StereoSGM(disk_first[1].cols, disk_first[1].rows, disp_size,
                             DepthBits(disk_first[1].type), dst_depth,
                             EXECUTE_INOUT_CUDA2CUDA)
          /\ d_I1.alloc /\ d_I1.size = MatBytes(disk_first[1])
          /\ d_I2.alloc /\ d_I2.size = MatBytes(disk_first[1])
          /\ d_disparity.alloc
          /\ d_disparity.size = 2 * disk_first[1].cols * disk_first[1].rows

\* two frames were processed, the second of another size than the first, with
\* the engine and the buffers of the first frame
C15_Witness ==
    /\ pc = "m_for_incr"
    /\ Cardinality(At("imwrite")) = 2
    /\ size(I1) # size(disk_first[1])
    /\ Cardinality(At("StereoSGM")) = 1
    /\ Cardinality(At("alloc")) = 3
    /\ d_I1.size = MatBytes(disk_first[1])

\* the events of a frame from its load to its end timestamp
TimedOps == << "imread", "upload", "upload", "t1", "execute", "sync", "t2" >>

\* the k events that end at position q are the first k of TimedOps, all of
\* the frame of trace[q]
RoundUpTo(q, k) ==
    /\ q >= k
    /\ \A j \in 1..k : /\ trace[q - k + j].op = TimedOps[j]
                        /\ trace[q - k + j].n = trace[q].n

\* C16: the start timestamp of a frame is taken right after the frame's load
\* and its two uploads (both complete: the device images are the frame's);
\* the end timestamp right after the start timestamp, the matching call and
\* its synchronisation, so that nothing else lies in the interval; and the
\* download, the encoding and the write of a frame come after its end
\* timestamp.
C16_IntervalIsMatchingOnly ==
    /\ \A p \in 1..Len(trace) :
          LET op == trace[p].op
          IN  /\ op = "t1" => RoundUpTo(p, 4)
              /\ op = "t2" => RoundUpTo(p, 7)
              /\ op = "download" => (trace[p - 1].op = "t2" /\ trace[p - 1].n = trace[p].n)
              /\ op = "encode" => trace[p - 1].op = "download"
              /\ op = "imwrite" => trace[p - 1].op = "encode"
    /\ pc \in {"m_t1", "m_execute"} =>
          /\ d_I1.data \in UploadedFrom("L", frame_no)
          /\ d_I2.data \in UploadedFrom("R", frame_no)
          /\ gpu = GpuIdle

\* the end timestamp of the second frame was just taken; its download has
\* not begun
C16_Witness ==
    /\ pc = "m_download"
    /\ Cardinality(At("t2")) = 2
    /\ trace[Len(trace)].op = "t2"
    /\ Cardinality(At("download")) = 1
    /\ disparity.data # d_disparity.data

\* C17 (its safety part): the loop makes at most total_number iterations,
\* and neither frame_no++ nor frame_no - start_number ever leaves the range
\* of a 32-bit signed integer.
C17_NoOverflowBoundedLoop ==
    /\ Cardinality(At("imread")) <= total_number
    /\ pc = "m_for_incr" => ~AddOverflows(frame_no, 1)
    /\ pc = "m_for_cond" => ~SubOverflows(frame_no, start_number)

\* the characters 0..9
Digits == { Digit(d) : d \in 0..9 }

\* the value of a digit
DigitValue(c) == CASE c = "0" -> 0 [] c = "1" -> 1 [] c = "2" -> 2 [] c = "3" -> 3
                   [] c = "4" -> 4 [] c = "5" -> 5 [] c = "6" -> 6 [] c = "7" -> 7
                   [] c = "8" -> 8 [] c = "9" -> 9

RECURSIVE ParseDecimal(_)
\* the number a sequence of digits denotes
ParseDecimal(ds) ==
    IF ds = << >> THEN 0
    ELSE 10 * ParseDecimal(SubSeq(ds, 1, Len(ds) - 1)) + DigitValue(ds[Len(ds)])

\* path is output_path, "/", "disparity_", the decimal digits of n padded
\* with zeros on the left to four digits (and no further), ".png"
WellFormedPath(path, n) ==
    LET dir == Len(output_path)
        ds == SubSeq(path, dir + 3, Len(path) - 1)
    IN  /\ Len(path) >= dir + 7
        /\ SubSeq(path, 1, dir) = output_path
        /\ path[dir + 1] = "/"
        /\ path[dir + 2] = "disparity_"
        /\ path[Len(path)] = ".png"
        /\ Len(ds) >= 4
        /\ Len(ds) > 4 => ds[1] # "0"
        /\ \A k \in 1..Len(ds) : ds[k] \in Digits
        /\ ParseDecimal(ds) = n

\* the writes attempted so far, each with its frame and its path: the ones
\* that printed a progress line, then the ones that printed an error
WriteAttempts ==
    SelectSeq(cout, LAMBDA l : l.line = "Saved to")
       \o SelectSeq(cerr, LAMBDA l : l.line = "Error saving frame")

\* C19: the path of every write of a frame n >= 0 is output_path +
\* "/disparity_" + n padded to at least four digits + ".png" (the number is
\* read back from it), no two writes of one run go to the same path, and
\* every write made is among them (it printed one line, once the line is out).
C19_PathFormatInjective ==
    LET wa == WriteAttempts
    IN  /\ (pc = "m_imwrite" /\ frame_no >= 0) => WellFormedPath(full_path, frame_no)
        /\ \A a \in 1..Len(wa) : wa[a].n >= 0 => WellFormedPath(wa[a].path, wa[a].n)
        /\ \A a, b \in 1..Len(wa) : a # b => wa[a].path # wa[b].path
        /\ pc = "m_imwrite" => \A a \in 1..Len(wa) : wa[a].path # full_path
        /\ Len(wa) = Cardinality(At("imwrite"))
                        - (IF pc \in {"m_log_saved", "m_catch"} THEN 1 ELSE 0)

\* one run wrote frame 9999 under a four-digit name and frame 10000 under a
\* five-digit name
C19_Witness ==
    /\ pc = "exited"
    /\ Len(files) = 2
    /\ files[1].n = 9999
    /\ files[1].path = << ".", "/", "disparity_", "9", "9", "9", "9", ".png" >>
    /\ files[2].n = 10000
    /\ files[2].path = << ".", "/", "disparity_", "1", "0", "0", "0", "0", ".png" >>

-----------------------------------------------------------------------------
(* Properties of both runners (SpecBoth) *)

\* C6: no device resource (engine, device buffer) exists, or was created,
\* while disp_size is outside {64, 128, 256}; such a run ends with a failure.
C6_BadDispSizeRejectedFirst ==
    disp_size \notin {64, 128, 256} =>
       /\ ~DeviceResource
       /\ pc = "exited" => exit_status = EXIT_FAILURE

\* a valid pair, and the run ended on the disp_size assertion
C6_Witness ==
    /\ disp_size \notin {64, 128, 256}
    /\ pc = "exited"
    /\ exit_status = EXIT_FAILURE
    /\ trace[1].arg.pair
    /\ \E c \in 1..Len(cerr) :
          cerr[c].line = "disparity size must be 64, 128 or 256"

\* the event at position q (an end timestamp or a download) comes after the
\* synchronisation of the matching call of the same iteration, with nothing
\* but that call's end timestamp in between
SyncedAt(q) ==
    LET s == IF q > 1 /\ trace[q].op = "download" /\ trace[q - 1].op = "t2"
             THEN q - 2 ELSE q - 1
    IN  /\ s >= 2
        /\ trace[s].op = "sync"
        /\ trace[s - 1].op = "execute"
        /\ trace[s - 1].n = trace[q].n
        /\ trace[s].n = trace[q].n

\* C11: in both runners the event after a matching call is the device
\* synchronisation of that call; every end timestamp and every download comes
\* after the synchronisation of its own matching call; and no work is pending
\* on the device except between a matching call and its synchronisation.
C11_SyncBeforeRead ==
    /\ \A p \in 1..Len(trace) :
          /\ (trace[p].op = "execute" /\ p < Len(trace)) =>
                (trace[p + 1].op = "sync" /\ trace[p + 1].n = trace[p].n)
          /\ trace[p].op \in {"t2", "download"} => SyncedAt(p)
    /\ gpu # GpuIdle => pc \in {"m_sync", "b_sync"}

\* the Batch Runner has downloaded the disparity of its second frame, which
\* the synchronisation delivered
C11_Witness ==
    /\ pc = "m_encode"
    /\ start_number = 0
    /\ frame_no = 1
    /\ gpu = GpuIdle
    /\ disparity.data = Matched(<<"L", frame_no>>, <<"R", frame_no>>)
    /\ trace[Len(trace)].op = "download"
    /\ Cardinality(At("sync")) = 2

-----------------------------------------------------------------------------
(* Properties of the Benchmark Runner (SpecBench) *)

\* the matching calls made and the durations added to the total, in order
Executed == SelectSeq(trace, LAMBDA e : e.op = "execute")
Added == SelectSeq(trace, LAMBDA e : e.op = "add")

\* C5: past validation, the run makes exactly 70 matching calls (iterations
\* 0..69); a duration of iterations 0..19 is never added to the total, those
\* of iterations 20..69 are added once each, and the average reported is the
\* total divided by 50.
C5_SeventyCallsFiftyMeasured ==
    LET ex == Executed
        ad == Added
    IN  /\ \A k \in 1..Len(ex) : ex[k].n = k - 1
        /\ Len(ex) <= 70
        /\ \A k \in 1..Len(ad) : ad[k].n = 19 + k
        /\ Len(ad) <= 50
        /\ (pc = "exited" /\ At("StereoSGM") # {}) =>
              /\ Len(ex) = 70
              /\ Len(ad) = 50
              /\ total_duration_us = measured_sum
              /\ average_time_us = << total_duration_us, 50 >>
              /\ exit_status = EXIT_SUCCESS

\* a finished run whose measured durations are neither all 0 nor all equal
C5_Witness ==
    /\ pc = "exited"
    /\ Len(Executed) = 70
    /\ total_duration_us = 7
    /\ average_time_us = << 7, 50 >>

\* the positions of the uploads into the device buffer named b
UploadsInto(b) == { p \in At("upload") : trace[p].arg = b }

\* C12: the Benchmark Runner uploads each image at most once and never
\* downloads; every upload precedes every matching call; once a matching call
\* was made, and until the end of the run, each image has been uploaded
\* exactly once and the device buffers hold what was uploaded then.
C12_UploadedOnceBeforeLoop ==
    LET ex == At("execute")
        left == UploadsInto("d_I1")
        right == UploadsInto("d_I2")
    IN  /\ Cardinality(left) <= 1
        /\ Cardinality(right) <= 1
        /\ At("upload") = left \cup right
        /\ At("download") = {}
        /\ \A u \in At("upload") : \A x \in ex : u < x
        /\ ex # {} =>
              /\ Cardinality(left) = 1
              /\ Cardinality(right) = 1
              /\ d_I1.alloc => d_I1.data = << "L", start_number >>
              /\ d_I2.alloc => d_I2.data = << "R", start_number >>

\* the loop has ended after its 70 matching calls with two uploads made, the
\* device images still the ones uploaded before the loop
C12_Witness ==
    /\ pc = "b_average"
    /\ Cardinality(At("execute")) = 70
    /\ Cardinality(At("upload")) = 2
    /\ d_I1.data = << "L", start_number >>
    /\ d_I2.data = << "R", start_number >>

-----------------------------------------------------------------------------
(* Properties of the Disparity Encoder (SpecEncoder) *)

\* C7: every sample equal to the sentinel is encoded as 0, and the encoded
\* image has the disparity map's width and height.
C7_SentinelEncodedAsZero ==
    pc = "e_done" =>
       /\ output_disparity.rows = disparity.rows
       /\ output_disparity.cols = disparity.cols
       /\ DOMAIN output_disparity.data = DOMAIN disparity.data
       /\ \A k \in DOMAIN disparity.data :
             disparity.data[k] = invalid_disp => output_disparity.data[k] = 0

\* a sentinel sample whose scaled value is not 0, beside a valid sample
C7_Witness ==
    /\ pc = "e_done"
    /\ invalid_disp = 255
    /\ \E k, j \in DOMAIN disparity.data :
          /\ disparity.data[k] = invalid_disp
          /\ disparity.data[j] = 2
          /\ output_disparity.data[j] = 200

\* C8 as claimed: every sample d other than the sentinel is encoded as
\* d * 100 unless d * 100 exceeds 65535.
C8_ScaledUnlessAbove ==
    pc = "e_done" =>
       \A k \in DOMAIN disparity.data :
          (disparity.data[k] # invalid_disp /\ disparity.data[k] * 100 <= 65535)
             => output_disparity.data[k] = disparity.data[k] * 100

\* C8 amended: every sample d other than the sentinel is encoded as d * 100
\* unless d * 100 lies outside 0..65535.
C8_ScaledWithinRange ==
    pc = "e_done" =>
       \A k \in DOMAIN disparity.data :
          (/\ disparity.data[k] # invalid_disp
           /\ 0 <= disparity.data[k] * 100
           /\ disparity.data[k] * 100 <= 65535)
             => output_disparity.data[k] = disparity.data[k] * 100

\* the largest sample that still scales exactly, not the sentinel
C8_Witness ==
    /\ pc = "e_done"
    /\ \E k \in DOMAIN disparity.data :
          /\ disparity.data[k] = 655
          /\ disparity.data[k] # invalid_disp
          /\ output_disparity.data[k] = 65500

\* C18: every sample d other than the sentinel is encoded as d * 100 clamped
\* into 0..65535: 65535 when d * 100 > 65535, 0 when d * 100 < 0; where the
\* low 16 bits of d * 100 differ from the clamped value they are not the
\* output.
C18_ClampedNeverWraps ==
    pc = "e_done" =>
       \A k \in DOMAIN disparity.data :
          LET d == disparity.data[k]
              out == output_disparity.data[k]
          IN  d # invalid_disp =>
                 /\ d * 100 > 65535 => out = 65535
                 /\ d * 100 < 0 => out = 0
                 /\ (0 <= d * 100 /\ d * 100 <= 65535) => out = d * 100
                 /\ 0 <= out /\ out <= 65535
                 /\ (d * 100 > 65535 /\ (d * 100) % 65536 # 65535)
                       => out # (d * 100) % 65536
                 /\ (d * 100 < 0 /\ (d * 100) % 65536 # 0)
                       => out # (d * 100) % 65536

\* one sample clamped at the top (65600 has the low 16 bits 64), one clamped
\* at the bottom (-200 has the low 16 bits 65336)
C18_Witness ==
    /\ pc = "e_done"
    /\ invalid_disp = -1
    /\ disparity.data = << 656, -2 >>
    /\ output_disparity.data = << 65535, 0 >>

====
